---- MODULE Spec2Model ----
(***************************************************************************)
(* The gossip transport of the validator                                   *)
(* (validator/sawtooth_validator/server/network.py): the server endpoint   *)
(* (_ServerSendReceiveThread + Network), the client links (Stream +        *)
(* _ClientSendReceiveThread), the built-in handlers, the peer registry and *)
(* the broadcast fan-out.                                                  *)
(*                                                                         *)
(* Each worker thread owns an asyncio event loop.  Other threads post to   *)
(* it with run_coroutine_threadsafe; the loop runs the posted coroutines   *)
(* in the order they were posted (ready[w]).  A frame arriving on a socket *)
(* is an input of the environment (the remote peer).                       *)
(***************************************************************************)
EXTENDS Naturals, Sequences, FiniteSets

\* ------------------------------------------------------------- bounds
\* Frames the environment delivers to the receive loops, in total.
MaxRecv == 2
\* Application calls (Stream.send, send_message, broadcast_message), in total.
MaxCalls == 2
\* Application calls in the fan-out specification.
MaxFanoutCalls == 3
\* Items the application threads put on the inbound queue.
MaxPipeCalls == 3
\* Frames delivered in the decoding specification.
MaxDecodeFrames == 3
\* Application calls in the event-loop specification.
MaxLoopCalls == 3
\* Frames the links receive in the connection-order specification.
MaxOrderFrames == 1
\* Frames a link receives in the receive-queue specification.
MaxQueueFrames == 3
\* Connections added in the shutdown specification.
MaxStopCalls == 2
\* Acks the remote peer delivers to a link in the send specification.
MaxAcks == 1
\* Frames delivered to the server in the registry's specification.
MaxRegFrames == 3

\* ------------------------------------------------------------- values
Server == 0
\* The outbound connections add_connection can create, and the application
\* threads.
Links == {1, 2}
Workers == {Server} \cup Links
Threads == {1, 2}

MsgTypes == {"gossip/register", "gossip/unregister", "gossip/msg",
             "gossip/ping", "gossip/ack"}
\* The correlation ids _generate_id hands out, in order (each one fresh), and
\* the ids the environment puts in the frames it delivers.
CidSeq == <<"c1", "c2", "c3", "c4">>
Cids == {"c1", "c2"}
Senders == {"p1", "p2"}
Payloads == {"a", "b"}
AckOK == "OK"
NoSender == ""
\* PeerRegisterRequest().SerializeToString(): no field is set.
EmptyPayload == ""

\* validator_pb2.Message
Message(t, c, p, s) ==
  [message_type |-> t, correlation_id |-> c, content |-> p, sender |-> s]

\* What a remote peer can put on the wire.
Envelopes ==
  [message_type : MsgTypes, correlation_id : Cids, content : Payloads,
   sender : Senders]

NoMessage == Message("", "", "", NoSender)
\* A payload the request's ParseFromString rejects (DecodeError), bytes on
\* the socket that Message.ParseFromString rejects, and an item that parses
\* and fails signature verification.
BadPayload == "truncated"
Garbage == Message("", "", BadPayload, NoSender)
Forged == "forged"
\* A message built by a caller that set no correlation id.
NoCid == ""
IdleCall == [pc |-> "idle", op |-> "", w |-> Server, message |-> NoMessage]
IdleDrain == [busy |-> FALSE, message |-> NoMessage, idx |-> 0]
\* Nobody has called Network.stop or close_connections.
NoShutdown == [stop |-> "idle", close |-> "idle", idx |-> 0]

VARIABLES
  runPc,          \* [Workers -> ...] the next statement of each worker's run()
  made,           \* [Workers -> SUBSET ...] the fields of the worker that are not None
  waiting,        \* [Workers -> SUBSET Threads] threads asleep in _condition.wait_for
  ready,          \* [Workers -> Seq] coroutines posted to the loop, not yet run
  send_queue,     \* [Workers -> Seq(Message)] _send_queue
  wire,           \* [Workers -> Seq(Message)] what _send_message wrote to the socket
  received,       \* [Workers -> Seq(Message)] what _receive_message read from the socket
  recvTask,       \* [Workers -> {"running","failed"}] the _receive_message task
  futures,        \* [Workers -> FutureCollection] Stream._futures / Network._futures
  handlers,       \* [Workers -> [type -> handler]] Stream._handlers / Network._handlers
  handled,        \* Seq of handler invocations, in order
  recv_queue,     \* [Links -> Seq(Message)] _ClientSendReceiveThread._recv_queue
  peered_with_us, \* Network._peered_with_us
  inbound_queue,  \* Network.inbound_queue
  broadcast_queue,\* _ServerSendReceiveThread._broadcast_queue
  connections,    \* _ServerSendReceiveThread._connections (links, in list order)
  drain,          \* the position of _broadcast_message in its for loop
  born,           \* the links whose Stream has been constructed
  call,           \* [Threads -> ...] the call each application thread is in
  posted,         \* [Workers -> Seq(Message)] envelopes in the order send_message posted them
  regPair,        \* the last two registry operations and the registry before them
  slept,          \* the messages whose sender slept in wait_for before posting
  enqueuedWith,   \* per broadcast put on _broadcast_queue, the connection list then
  nextId,         \* how many correlation ids _generate_id has handed out
  ncalls,         \* how many application calls have been started
  outboud_queue,  \* Network.outboud_queue, read by the dispatcher
  sigPc,          \* where the SignatureVerifier's worker is
  inboundPut,     \* the items given to _put_on_inbound, in the order of the puts
  shutdown,       \* the calls of Network.stop and close_connections
  loopBlocked,    \* the workers whose loop thread sleeps in a wait_for of its own
  getters,        \* [Links -> Seq(Threads)] _get_message coroutines waiting in get()
  got             \* [Links -> Seq(Message)] what Stream.receive returned, in order

vars == <<runPc, made, waiting, ready, send_queue, wire, received, recvTask,
          futures, handlers, handled, recv_queue, peered_with_us,
          inbound_queue, broadcast_queue, connections, drain, born, call,
          posted, regPair, slept, enqueuedWith, nextId, ncalls,
          outboud_queue, sigPc, inboundPut, shutdown, loopBlocked, getters,
          got>>

\* ------------------------------------------------------------- helpers
Last(s) == s[Len(s)]

\* The handler classes.
HDefault == "DefaultHandler"
HRegister == "PeerRegisterHandler"
HUnregister == "PeerUnregisterHandler"
HGossip == "GossipMessageHandler"
HPing == "PingHandler"

\* Network.__init__: the handlers the service registers.
NetworkHandlers ==
  [t \in {"default", "gossip/register", "gossip/unregister", "gossip/msg"} |->
     CASE t = "default" -> HDefault
       [] t = "gossip/register" -> HRegister
       [] t = "gossip/unregister" -> HUnregister
       [] OTHER -> HGossip]

\* A Stream that registered no default handler.
StreamHandlersNoDefault ==
  [t \in {"gossip/msg", "gossip/ping"} |->
     IF t = "gossip/msg" THEN HGossip ELSE HPing]

\* Stream.__init__: the handlers a client link registers.
StreamHandlers ==
  [t \in {"default", "gossip/msg", "gossip/ping"} |->
     CASE t = "default" -> HDefault
       [] t = "gossip/msg" -> HGossip
       [] OTHER -> HPing]

\* self._handlers['default'] where the table has no such key.
HKeyError == "KeyError"

\* _receive_message: the handler of a message that is no reply.
LookupHandler(table, message_type) ==
  IF message_type \in DOMAIN table THEN table[message_type]
  ELSE IF "default" \in DOMAIN table THEN table["default"]
  ELSE HKeyError

\* add_handler: self._handlers[message_type] = handler.  The worker holds
\* the same dict object.
add_handler(table, message_type, handler) ==
  [t \in DOMAIN table \cup {message_type} |->
     IF t = message_type THEN handler ELSE table[t]]

\* future.FutureCollection, keyed by correlation id.
NoResult == [message_type |-> "", content |-> ""]
FutureResult(t, p) == [message_type |-> t, content |-> p]
NewFuture == [done |-> FALSE, result |-> NoResult]

FuturesPut(F, c) ==
  [k \in DOMAIN F \cup {c} |-> IF k = c THEN NewFuture ELSE F[k]]

\* FutureCollection.set_result raises FutureCollectionKeyError exactly when
\* this is FALSE.
FuturesHas(F, c) == c \in DOMAIN F

FuturesSetResult(F, c, r) == [F EXCEPT ![c] = [done |-> TRUE, result |-> r]]

\* Network.register_peer / Network.unregister_peer on the registry R, a
\* function from the registered senders to their lists of records.
register_peer(R, sender, identity) ==
  LET R1 == IF sender \in DOMAIN R THEN R
            ELSE [k \in DOMAIN R \cup {sender} |->
                    IF k = sender THEN <<>> ELSE R[k]]
  IN [R1 EXCEPT ![sender] = Append(@, sender)]

\* An unregister that removed the sender's last record and kept the key.
unregister_last_record(R, sender, identity) ==
  IF sender \in DOMAIN R
  THEN [R EXCEPT ![sender] = SubSeq(@, 1, Len(@) - 1)]
  ELSE R

unregister_peer(R, sender, identity) ==
  IF sender \in DOMAIN R THEN [k \in DOMAIN R \ {sender} |-> R[k]] ELSE R

\* The gossip/ack every built-in handler builds for a request.
Ack(message) ==
  Message("gossip/ack", message.correlation_id, AckOK, message.sender)

\* request.ParseFromString(message.content)
PayloadParses(content) == content # BadPayload

\* A handler that raised before it called anything.
Raised(R, inbound) ==
  [ok |-> FALSE, reg |-> R, inbound |-> inbound, acks |-> <<>>,
   steps |-> <<>>]

\* An inbound queue that handed out the newest item first.
put_on_inbound_front(q, item) == <<item>> \o q

\* Network._put_on_inbound: self.inbound_queue.put_nowait(item)
put_on_inbound(q, item) == Append(q, item)

\* handler.handle(message, responder) for the handler class h held by worker
\* w: whether it returns (ok) or raises, the registry and the inbound queue
\* it leaves, the envelopes it passed to responder.send, in order, and the
\* calls it made on its service and its responder, in order.
\* The service of a handler is the Network on the server and the Stream on a
\* link; a Stream has no _put_on_inbound, so GossipMessageHandler raises
\* AttributeError there before it builds the ack.
PeerRegisterHandle(w, message, R, inbound) ==
  IF PayloadParses(message.content)
  THEN [ok |-> TRUE, reg |-> register_peer(R, message.sender, message.content),
        inbound |-> inbound, acks |-> <<Ack(message)>>,
        steps |-> <<"register_peer", "send">>]
  ELSE Raised(R, inbound)

PeerUnregisterHandle(w, message, R, inbound) ==
  IF PayloadParses(message.content)
  THEN [ok |-> TRUE,
        reg |-> unregister_peer(R, message.sender, message.content),
        inbound |-> inbound, acks |-> <<Ack(message)>>,
        steps |-> <<"unregister_peer", "send">>]
  ELSE Raised(R, inbound)

GossipMessageHandle(w, message, R, inbound) ==
  IF PayloadParses(message.content) /\ w = Server
  THEN [ok |-> TRUE, reg |-> R,
        inbound |-> put_on_inbound(inbound, message.content),
        acks |-> <<Ack(message)>>, steps |-> <<"_put_on_inbound", "send">>]
  ELSE Raised(R, inbound)

PingHandle(w, message, R, inbound) ==
  IF PayloadParses(message.content)
  THEN [ok |-> TRUE, reg |-> R, inbound |-> inbound,
        acks |-> <<Ack(message)>>, steps |-> <<"send">>]
  ELSE Raised(R, inbound)

DefaultHandle(w, message, R, inbound) ==
  [ok |-> TRUE, reg |-> R, inbound |-> inbound, acks |-> <<>>,
   steps |-> <<>>]

Handle(h, w, message, R, inbound) ==
  CASE h = HRegister -> PeerRegisterHandle(w, message, R, inbound)
    [] h = HUnregister -> PeerUnregisterHandle(w, message, R, inbound)
    [] h = HGossip -> GossipMessageHandle(w, message, R, inbound)
    [] h = HPing -> PingHandle(w, message, R, inbound)
    [] h = HKeyError -> Raised(R, inbound)
    [] OTHER -> DefaultHandle(w, message, R, inbound)

\* A coroutine posted to a loop with run_coroutine_threadsafe.
Posted(co, message) == [co |-> co, message |-> message]

\* The _get_message coroutine get_message posts for thread t, which waits
\* for its result.
PostedGet(t) == [co |-> "_get_message", message |-> NoMessage, thread |-> t]

\* The registry operations of one handler call, for regPair: the operation,
\* its arguments and the registry it found.
RegOp(h, message, R) ==
  [op |-> h, sender |-> message.sender, identity |-> message.content,
   before |-> R]

KeepLast2(s) == IF Len(s) > 2 THEN SubSeq(s, Len(s) - 1, Len(s)) ELSE s

\* ------------------------------------------------------------- Init
\* Network.__init__ up to self.start(): the handlers are registered, the
\* server worker and the signature verifier are started and no connection
\* exists yet.
Init ==
  /\ runPc = [w \in Workers |-> IF w = Server THEN "event_loop" ELSE "unborn"]
  /\ made = [w \in Workers |-> {}]
  /\ waiting = [w \in Workers |-> {}]
  /\ ready = [w \in Workers |-> <<>>]
  /\ send_queue = [w \in Workers |-> <<>>]
  /\ wire = [w \in Workers |-> <<>>]
  /\ received = [w \in Workers |-> <<>>]
  /\ recvTask = [w \in Workers |-> "running"]
  /\ futures = [w \in Workers |-> <<>>]
  /\ handlers = [w \in Workers |->
                   IF w = Server THEN NetworkHandlers ELSE <<>>]
  /\ handled = <<>>
  /\ recv_queue = [l \in Links |-> <<>>]
  /\ peered_with_us = <<>>
  /\ inbound_queue = <<>>
  /\ broadcast_queue = <<>>
  /\ connections = <<>>
  /\ drain = IdleDrain
  /\ born = {}
  /\ call = [t \in Threads |-> IdleCall]
  /\ posted = [w \in Workers |-> <<>>]
  /\ regPair = <<>>
  /\ slept = {}
  /\ enqueuedWith = {}
  /\ nextId = 0
  /\ ncalls = 0
  /\ outboud_queue = <<>>
  /\ sigPc = "check"
  /\ inboundPut = <<>>
  /\ shutdown = NoShutdown
  /\ loopBlocked = {}
  /\ getters = [l \in Links |-> <<>>]
  /\ got = [l \in Links |-> <<>>]

\* ------------------------------------------------------------- run()
\* The statements of run(), one action each.  A worker's fields are set
\* without the condition held; only notify_all takes it.
SecondQueue(w) == IF w = Server THEN "broadcast_queue" ELSE "recv_queue"

RunStep(w, at, field, next) ==
  /\ runPc[w] = at
  /\ runPc' = [runPc EXCEPT ![w] = next]
  /\ made' = [made EXCEPT ![w] = @ \cup {field}]
  /\ UNCHANGED <<waiting, ready, send_queue, wire, received, recvTask,
                 futures, handlers, handled, recv_queue, peered_with_us,
                 inbound_queue, broadcast_queue, connections, drain, born,
                 call, posted, regPair, nextId, ncalls,
                 slept, enqueuedWith,
                 outboud_queue, sigPc, inboundPut, shutdown,
                 loopBlocked, getters, got>>

\* A run() that left _send_queue None.
RunSkipSendQueue(w) == RunStep(w, "send_queue", "event_loop", "second_queue")

RunCreateLoop(w) == RunStep(w, "event_loop", "event_loop", "proc_sock")
RunCreateSocket(w) == RunStep(w, "proc_sock", "proc_sock", "send_queue")
RunCreateSendQueue(w) == RunStep(w, "send_queue", "send_queue", "second_queue")
RunCreateSecondQueue(w) ==
  RunStep(w, "second_queue", SecondQueue(w), "notify_all")

\* A run() that called notify() where it calls notify_all(): one sleeper
\* wakes.
NotifyWakesOne(w) ==
  IF waiting[w] = {} THEN {} ELSE {CHOOSE t \in waiting[w] : TRUE}

\* with self._condition: self._condition.notify_all(): every thread asleep
\* in wait_for wakes and tests its predicate again.
NotifyAllWakes(w) == waiting[w]

RunNotifyAll(w) ==
  /\ runPc[w] = "notify_all"
  /\ runPc' = [runPc EXCEPT ![w] = "run_forever"]
  /\ waiting' = [waiting EXCEPT ![w] = @ \ NotifyAllWakes(w)]
  /\ call' = [t \in Threads |->
                IF t \in NotifyAllWakes(w)
                THEN [call[t] EXCEPT !.pc = "wait_for"] ELSE call[t]]
  /\ UNCHANGED <<made, ready, send_queue, wire, received, recvTask, futures,
                 handlers, handled, recv_queue, peered_with_us,
                 inbound_queue, broadcast_queue, connections, drain, born,
                 posted, regPair, nextId, ncalls,
                 slept, enqueuedWith,
                 outboud_queue, sigPc, inboundPut, shutdown,
                 loopBlocked, getters, got>>

\* with self._condition: self._condition.wait_for(lambda: <fields> is not
\* None), evaluated by a coroutine on the loop thread of worker w: the value
\* of the predicate.
WaitForOnLoop(w, fields) == fields \subseteq made[w]

\* The predicates of the tasks run() creates with ensure_future:
\* _receive_message, _send_message and, on the server, _broadcast_message.
TaskPredicates(w) ==
  {{"proc_sock"}, {"send_queue", "proc_sock"}}
    \cup (IF w = Server THEN {{"broadcast_queue", "proc_sock"}} ELSE {})

\* The predicate of a coroutine posted to the loop: _put_message,
\* _put_broadcast_message, _get_message.
PostedPredicate(co) ==
  CASE co = "_put_message" -> {"send_queue"}
    [] co = "_put_broadcast_message" -> {"broadcast_queue"}
    [] OTHER -> {"recv_queue"}

\* self._event_loop.run_forever(): the loop starts and gives each task its
\* first step, the wait_for.  A predicate that is false puts the loop thread
\* to sleep on its own condition, which only run() on that thread notifies.
RunForever(w) ==
  /\ runPc[w] = "run_forever"
  /\ runPc' = [runPc EXCEPT ![w] = "running"]
  /\ loopBlocked' = IF \A fields \in TaskPredicates(w) : WaitForOnLoop(w, fields)
                    THEN loopBlocked
                    ELSE loopBlocked \cup {w}
  /\ UNCHANGED <<made, waiting, ready, send_queue, wire, received, recvTask,
                 futures, handlers, handled, recv_queue, peered_with_us,
                 inbound_queue, broadcast_queue, connections, drain, born,
                 call, posted, regPair, slept, enqueuedWith, nextId, ncalls,
                 outboud_queue, sigPc, inboundPut, shutdown, getters, got>>

Run(w) ==
  \/ RunCreateLoop(w)
  \/ RunCreateSocket(w)
  \/ RunCreateSendQueue(w)
  \/ RunCreateSecondQueue(w)
  \/ RunNotifyAll(w)
  \/ RunForever(w)

Running(w) == runPc[w] = "running"

\* ------------------------------------------------------------- the loop
\* A queue that handed out the newest item first.
QueuePutFront(q, item) == <<item>> \o q

\* asyncio.Queue.put_nowait
QueuePut(q, item) == Append(q, item)

\* A loop that ran what was posted last, first.
PostToLoopFront(r, p) == <<p>> \o r

\* run_coroutine_threadsafe(coroutine, loop): the loop runs what was posted
\* first, first.
PostToLoop(r, p) == Append(r, p)

\* The server's loop thread is inside _broadcast_message's for loop, which
\* never suspends: no other task of that loop runs meanwhile.  Nor does any
\* while the loop thread sleeps in a wait_for.
LoopFree(w) ==
  /\ Running(w)
  /\ w \notin loopBlocked
  /\ w = Server => ~drain.busy

\* _put_message / _put_broadcast_message / _get_message, run by the loop:
\* the coroutine evaluates its wait_for predicate; then the item is
\* enqueued, or the coroutine waits in self._recv_queue.get().
RunPosted(w) ==
  /\ LoopFree(w)
  /\ ready[w] # <<>>
  /\ LET p == Head(ready[w]) IN
       IF WaitForOnLoop(w, PostedPredicate(p.co))
       THEN /\ ready' = [ready EXCEPT ![w] = Tail(@)]
            /\ CASE p.co = "_put_message" ->
                      /\ send_queue' =
                           [send_queue EXCEPT ![w] = QueuePut(@, p.message)]
                      /\ UNCHANGED <<broadcast_queue, getters>>
                 [] p.co = "_put_broadcast_message" ->
                      /\ broadcast_queue' = QueuePut(broadcast_queue, p.message)
                      /\ UNCHANGED <<send_queue, getters>>
                 [] OTHER ->
                      /\ getters' = [getters EXCEPT ![w] = Append(@, p.thread)]
                      /\ UNCHANGED <<send_queue, broadcast_queue>>
            /\ UNCHANGED loopBlocked
       ELSE /\ loopBlocked' = loopBlocked \cup {w}
            /\ UNCHANGED <<ready, send_queue, broadcast_queue, getters>>
  /\ UNCHANGED <<runPc, made, waiting, wire, received, recvTask, futures,
                 handlers, handled, recv_queue, peered_with_us,
                 inbound_queue, connections, drain, born, call, posted,
                 regPair, slept, nextId, ncalls, outboud_queue, sigPc,
                 inboundPut, shutdown, got>>

LoopRunPosted(w) == RunPosted(w) /\ UNCHANGED enqueuedWith

\* The same step, with the connection list of the moment recorded for a
\* broadcast put on the broadcast queue.
LoopRunPostedTracked(w) ==
  /\ RunPosted(w)
  /\ enqueuedWith' =
       IF Head(ready[w]).co = "_put_broadcast_message"
       THEN enqueuedWith \cup
              {[correlation_id |-> Head(ready[w]).message.correlation_id,
                connections |-> connections]}
       ELSE enqueuedWith

\* _send_message: take the head of the send queue and write it to the socket.
SendLoop(w) ==
  /\ LoopFree(w)
  /\ send_queue[w] # <<>>
  /\ send_queue' = [send_queue EXCEPT ![w] = Tail(@)]
  /\ wire' = [wire EXCEPT ![w] = Append(@, Head(send_queue[w]))]
  /\ UNCHANGED <<runPc, made, waiting, ready, received, recvTask, futures,
                 handlers, handled, recv_queue, peered_with_us,
                 inbound_queue, broadcast_queue, connections, drain, born,
                 call, posted, regPair, nextId, ncalls,
                 slept, enqueuedWith,
                 outboud_queue, sigPc, inboundPut, shutdown,
                 loopBlocked, getters, got>>

\* ------------------------------------------------------------- receive
RECURSIVE SumLen(_, _)
SumLen(f, S) ==
  IF S = {} THEN 0
  ELSE LET x == CHOOSE y \in S : TRUE IN Len(f[x]) + SumLen(f, S \ {x})

NumReceived == SumLen(received, Workers)

\* A receive loop that took for a reply only a gossip/ack with a known id.
IsReplyByType(w, message) ==
  /\ FuturesHas(futures[w], message.correlation_id)
  /\ message.message_type = "gossip/ack"

\* try: self._futures.set_result(...) / except FutureCollectionKeyError: the
\* message is a reply exactly when the table holds its correlation id.
IsReply(w, message) == FuturesHas(futures[w], message.correlation_id)

\* A receive loop that gave a reply to the oldest request still pending.
ReplyKeyFirstPending(w, message) ==
  LET pending == {i \in DOMAIN CidSeq :
                    /\ CidSeq[i] \in DOMAIN futures[w]
                    /\ ~futures[w][CidSeq[i]].done}
  IN IF pending = {} THEN message.correlation_id
     ELSE CidSeq[CHOOSE i \in pending : \A j \in pending : i <= j]

\* The key _receive_message passes to set_result: the correlation id the
\* message carries.
ReplyKey(w, message) == message.correlation_id

\* A _put_on_inbound that signalled nobody.
SignatureNotifyNone(pc) == pc

\* with self._signature_condition: self._signature_condition.notify_all(),
\* seen from the verifier's worker: asleep in wait(), it wakes and tests the
\* queue again.
SignatureNotifyAll(pc) == IF pc = "asleep" THEN "check" ELSE pc

\* The posts of the acks a handler sent through _Responder(self.send_message).
AckPosts(acks) == [i \in 1..Len(acks) |-> Posted("_put_message", acks[i])]

\* One message read by _receive_message of worker w.  (A MessageList of k
\* messages on a link is k of these steps.)
Receive(w, message) ==
  /\ LoopFree(w)
  /\ recvTask[w] = "running"
  /\ received' = [received EXCEPT ![w] = Append(@, message)]
  /\ IF IsReply(w, message)
     THEN /\ futures' = [futures EXCEPT ![w] =
                FuturesSetResult(@, ReplyKey(w, message),
                  FutureResult(message.message_type, message.content))]
          /\ UNCHANGED <<ready, posted, recvTask, handled, recv_queue,
                         peered_with_us, inbound_queue, regPair, sigPc,
                         inboundPut>>
     ELSE LET h == LookupHandler(handlers[w], message.message_type)
              r == Handle(h, w, message, peered_with_us, inbound_queue)
          IN /\ handled' = Append(handled,
                  [worker |-> w, handler |-> h, message |-> message,
                   ok |-> r.ok, acks |-> r.acks, steps |-> r.steps])
             /\ peered_with_us' = r.reg
             /\ inbound_queue' = r.inbound
             /\ ready' = [ready EXCEPT ![w] = @ \o AckPosts(r.acks)]
             /\ posted' = [posted EXCEPT ![w] = @ \o r.acks]
             /\ recvTask' = [recvTask EXCEPT ![w] =
                               IF r.ok THEN @ ELSE "failed"]
             /\ recv_queue' = IF w \in Links /\ r.ok
                              THEN [recv_queue EXCEPT ![w] = QueuePut(@, message)]
                              ELSE recv_queue
             /\ regPair' = IF h \in {HRegister, HUnregister}
                           THEN KeepLast2(Append(regPair,
                                                 RegOp(h, message, peered_with_us)))
                           ELSE regPair
             /\ IF r.inbound # inbound_queue
                THEN /\ inboundPut' = Append(inboundPut, message.content)
                     /\ sigPc' = SignatureNotifyAll(sigPc)
                ELSE UNCHANGED <<inboundPut, sigPc>>
             /\ UNCHANGED futures
  /\ UNCHANGED <<runPc, made, waiting, send_queue, wire, handlers,
                 broadcast_queue, connections, drain, born, call, nextId,
                 ncalls,
                 slept, enqueuedWith,
                 outboud_queue, shutdown,
                 loopBlocked, getters, got>>

\* _receive_message reads bytes that message.ParseFromString (on a link,
\* message_list.ParseFromString) rejects: DecodeError leaves the coroutine,
\* and the task of the receive loop ends with it.
ReceiveGarbage(w, max) ==
  /\ NumReceived < max
  /\ LoopFree(w)
  /\ recvTask[w] = "running"
  /\ received' = [received EXCEPT ![w] = Append(@, Garbage)]
  /\ recvTask' = [recvTask EXCEPT ![w] = "failed"]
  /\ UNCHANGED <<runPc, made, waiting, ready, send_queue, wire, futures,
                 handlers, handled, recv_queue, peered_with_us,
                 inbound_queue, broadcast_queue, connections, drain, born,
                 call, posted, regPair, slept, enqueuedWith, nextId, ncalls,
                 outboud_queue, sigPc, inboundPut, shutdown,
                 loopBlocked, getters, got>>

\* _ServerSendReceiveThread._receive_message: the frame's routing prefix
\* becomes the sender of the message.
ServerReceive(frames, max) ==
  \E e \in frames :
    /\ NumReceived < max
    /\ Receive(Server, [e EXCEPT !.sender = e.sender])

\* _ClientSendReceiveThread._receive_message
ClientReceive(l, frames, max) ==
  \E e \in frames :
    /\ NumReceived < max
    /\ Receive(l, e)

\* ------------------------------------------------------------- callers
\* _generate_id(): the next fresh correlation id.
GenerateId == CidSeq[nextId + 1]
IdsLeft == nextId < Len(CidSeq)

\* Stream.send(message_type, content), up to the call of
\* self._send_receive_thread.send_message: the message gets a fresh
\* correlation id and its Future is put in the link's table.
StreamSend(t, l, message_type, content) ==
  /\ call[t].pc = "idle"
  /\ l \in born
  /\ IdsLeft
  /\ LET message == Message(message_type, GenerateId, content, NoSender) IN
       /\ futures' = [futures EXCEPT ![l] = FuturesPut(@, message.correlation_id)]
       /\ call' = [call EXCEPT ![t] =
                     [pc |-> "wait_for", op |-> "send", w |-> l,
                      message |-> message]]
  /\ nextId' = nextId + 1
  /\ ncalls' = ncalls + 1
  /\ UNCHANGED <<runPc, made, waiting, ready, send_queue, wire, received,
                 recvTask, handlers, handled, recv_queue, peered_with_us,
                 inbound_queue, broadcast_queue, connections, drain, born,
                 posted, regPair,
                 slept, enqueuedWith,
                 outboud_queue, sigPc, inboundPut, shutdown,
                 loopBlocked, getters, got>>

\* _ServerSendReceiveThread.send_message(msg) called by an application
\* thread.
ServerSendMessage(t, message) ==
  /\ call[t].pc = "idle"
  /\ call' = [call EXCEPT ![t] =
                [pc |-> "wait_for", op |-> "send_message", w |-> Server,
                 message |-> message]]
  /\ ncalls' = ncalls + 1
  /\ UNCHANGED <<runPc, made, waiting, ready, send_queue, wire, received,
                 recvTask, futures, handlers, handled, recv_queue,
                 peered_with_us, inbound_queue, broadcast_queue, connections,
                 drain, born, posted, regPair, nextId,
                 slept, enqueuedWith,
                 outboud_queue, sigPc, inboundPut, shutdown,
                 loopBlocked, getters, got>>

\* Network.broadcast_message(message) called by an application thread, with
\* a message built as Network.__init__ builds its own.
NetworkBroadcast(t, content) ==
  /\ call[t].pc = "idle"
  /\ IdsLeft
  /\ call' = [call EXCEPT ![t] =
                [pc |-> "wait_for", op |-> "broadcast_message", w |-> Server,
                 message |-> Message("gossip/msg", GenerateId, content,
                                     NoSender)]]
  /\ nextId' = nextId + 1
  /\ ncalls' = ncalls + 1
  /\ UNCHANGED <<runPc, made, waiting, ready, send_queue, wire, received,
                 recvTask, futures, handlers, handled, recv_queue,
                 peered_with_us, inbound_queue, broadcast_queue, connections,
                 drain, born, posted, regPair,
                 slept, enqueuedWith,
                 outboud_queue, sigPc, inboundPut, shutdown,
                 loopBlocked, getters, got>>

\* Network.broadcast_message(message) with a message whose builder set no
\* correlation id.
NetworkBroadcastNoCid(t, content) ==
  /\ call[t].pc = "idle"
  /\ call' = [call EXCEPT ![t] =
                [pc |-> "wait_for", op |-> "broadcast_message", w |-> Server,
                 message |-> Message("gossip/msg", NoCid, content,
                                     NoSender)]]
  /\ ncalls' = ncalls + 1
  /\ UNCHANGED <<runPc, made, waiting, ready, send_queue, wire, received,
                 recvTask, futures, handlers, handled, recv_queue,
                 peered_with_us, inbound_queue, broadcast_queue, connections,
                 drain, born, posted, regPair, slept, enqueuedWith, nextId,
                 outboud_queue, sigPc, inboundPut, shutdown,
                 loopBlocked, getters, got>>

\* add_connection(server_identity, url) up to the send_message of
\* Connection.start: Connection.__init__ builds the Stream, which registers
\* its handlers and then starts the link's worker, and Stream.send puts the
\* Future of gossip/register.
AddConnection(t, l) ==
  /\ call[t].pc = "idle"
  /\ l \in Links \ born
  /\ \A k \in Links \ born : l <= k
  /\ IdsLeft
  /\ born' = born \cup {l}
  /\ handlers' = [handlers EXCEPT ![l] = StreamHandlers]
  /\ runPc' = [runPc EXCEPT ![l] = "event_loop"]
  /\ LET message == Message("gossip/register", GenerateId, EmptyPayload,
                            NoSender) IN
       /\ futures' = [futures EXCEPT ![l] = FuturesPut(@, message.correlation_id)]
       /\ call' = [call EXCEPT ![t] =
                     [pc |-> "wait_for", op |-> "add_connection", w |-> l,
                      message |-> message]]
  /\ nextId' = nextId + 1
  /\ ncalls' = ncalls + 1
  /\ UNCHANGED <<made, waiting, ready, send_queue, wire, received, recvTask,
                 handled, recv_queue, peered_with_us,
                 inbound_queue, broadcast_queue, connections, drain, posted,
                 regPair,
                 slept, enqueuedWith,
                 outboud_queue, sigPc, inboundPut, shutdown,
                 loopBlocked, getters, got>>

\* with self._condition: self._condition.wait_for(lambda: self._event_loop
\* is not None), entered or re-entered after a wake-up: with the condition
\* held the thread tests the predicate and, if it is false, sleeps.
WaitForLoop(t) ==
  /\ call[t].pc = "wait_for"
  /\ IF "event_loop" \in made[call[t].w]
     THEN /\ call' = [call EXCEPT ![t].pc = "post"]
          /\ UNCHANGED waiting
     ELSE /\ call' = [call EXCEPT ![t].pc = "sleeping"]
          /\ waiting' = [waiting EXCEPT ![call[t].w] = @ \cup {t}]
  /\ UNCHANGED <<runPc, made, ready, send_queue, wire, received, recvTask,
                 futures, handlers, handled, recv_queue, peered_with_us,
                 inbound_queue, broadcast_queue, connections, drain, born,
                 posted, regPair, nextId, ncalls, enqueuedWith,
                 outboud_queue, sigPc, inboundPut, shutdown,
                 loopBlocked, getters, got>>

WaitFor(t) == WaitForLoop(t) /\ UNCHANGED slept

\* The same step, with the message of a caller that had to sleep recorded.
WaitForTracked(t) ==
  /\ WaitForLoop(t)
  /\ slept' = IF "event_loop" \in made[call[t].w] THEN slept
              ELSE slept \cup {call[t].message}

\* asyncio.run_coroutine_threadsafe(self._put_message(msg), loop), or
\* _put_broadcast_message for a broadcast, and the return of send_message.
PostCall(t) ==
  /\ call[t].pc = "post"
  /\ call[t].op # "receive"
  /\ LET c == call[t] IN
       IF c.op = "broadcast_message"
       THEN /\ ready' = [ready EXCEPT ![c.w] =
                  PostToLoop(@, Posted("_put_broadcast_message", c.message))]
            /\ call' = [call EXCEPT ![t].pc = "put_future"]
            /\ UNCHANGED posted
       ELSE /\ ready' = [ready EXCEPT ![c.w] =
                  PostToLoop(@, Posted("_put_message", c.message))]
            /\ posted' = [posted EXCEPT ![c.w] = Append(@, c.message)]
            /\ call' = [call EXCEPT ![t] =
                  IF c.op = "add_connection" THEN [c EXCEPT !.pc = "append"]
                  ELSE IdleCall]
  /\ UNCHANGED <<runPc, made, waiting, send_queue, wire, received, recvTask,
                 futures, handlers, handled, recv_queue, peered_with_us,
                 inbound_queue, broadcast_queue, connections, drain, born,
                 regPair, nextId, ncalls,
                 slept, enqueuedWith,
                 outboud_queue, sigPc, inboundPut, shutdown,
                 loopBlocked, getters, got>>

\* Network.broadcast_message after the post: fut = Future(correlation_id);
\* self._futures.put(fut); return fut.
BroadcastPutFuture(t) ==
  /\ call[t].pc = "put_future"
  /\ futures' = [futures EXCEPT ![Server] =
                   FuturesPut(@, call[t].message.correlation_id)]
  /\ call' = [call EXCEPT ![t] = IdleCall]
  /\ UNCHANGED <<runPc, made, waiting, ready, send_queue, wire, received,
                 recvTask, handlers, handled, recv_queue, peered_with_us,
                 inbound_queue, broadcast_queue, connections, drain, born,
                 posted, regPair, nextId, ncalls,
                 slept, enqueuedWith,
                 outboud_queue, sigPc, inboundPut, shutdown,
                 loopBlocked, getters, got>>

\* add_connection: self._connections.append(Connection(...)), once the
\* constructor has returned.
AppendConnection(t) ==
  /\ call[t].pc = "append"
  /\ connections' = Append(connections, call[t].w)
  /\ call' = [call EXCEPT ![t] = IdleCall]
  /\ UNCHANGED <<runPc, made, waiting, ready, send_queue, wire, received,
                 recvTask, futures, handlers, handled, recv_queue,
                 peered_with_us, inbound_queue, broadcast_queue, drain, born,
                 posted, regPair, nextId, ncalls,
                 slept, enqueuedWith,
                 outboud_queue, sigPc, inboundPut, shutdown,
                 loopBlocked, getters, got>>

\* Stream.receive() called by an application thread on the Stream of link
\* l: get_message() enters wait_for.
StreamReceive(t, l) ==
  /\ call[t].pc = "idle"
  /\ l \in born
  /\ call' = [call EXCEPT ![t] =
                [pc |-> "wait_for", op |-> "receive", w |-> l,
                 message |-> NoMessage]]
  /\ ncalls' = ncalls + 1
  /\ UNCHANGED <<runPc, made, waiting, ready, send_queue, wire, received,
                 recvTask, futures, handlers, handled, recv_queue,
                 peered_with_us, inbound_queue, broadcast_queue,
                 connections, drain, born, posted, regPair, slept,
                 enqueuedWith, nextId, outboud_queue, sigPc, inboundPut,
                 shutdown, loopBlocked, getters, got>>

\* get_message: asyncio.run_coroutine_threadsafe(self._get_message(),
\* self._event_loop).result(): the coroutine is posted and the thread waits
\* for its result.
GetMessagePost(t) ==
  /\ call[t].pc = "post"
  /\ call[t].op = "receive"
  /\ ready' = [ready EXCEPT ![call[t].w] = PostToLoop(@, PostedGet(t))]
  /\ call' = [call EXCEPT ![t].pc = "result"]
  /\ UNCHANGED <<runPc, made, waiting, send_queue, wire, received, recvTask,
                 futures, handlers, handled, recv_queue, peered_with_us,
                 inbound_queue, broadcast_queue, connections, drain, born,
                 posted, regPair, slept, enqueuedWith, nextId, ncalls,
                 outboud_queue, sigPc, inboundPut, shutdown, loopBlocked,
                 getters, got>>

\* _get_message: msg = yield from self._recv_queue.get() returns the head
\* of the receive queue to the coroutine that has waited longest; the
\* thread that posted it gets the message from result() and receive()
\* returns it.
GetMessageReturn(l) ==
  /\ LoopFree(l)
  /\ getters[l] # <<>>
  /\ recv_queue[l] # <<>>
  /\ recv_queue' = [recv_queue EXCEPT ![l] = Tail(@)]
  /\ getters' = [getters EXCEPT ![l] = Tail(@)]
  /\ got' = [got EXCEPT ![l] = Append(@, Head(recv_queue[l]))]
  /\ call' = [call EXCEPT ![Head(getters[l])] = IdleCall]
  /\ UNCHANGED <<runPc, made, waiting, ready, send_queue, wire, received,
                 recvTask, futures, handlers, handled, peered_with_us,
                 inbound_queue, broadcast_queue, connections, drain, born,
                 posted, regPair, slept, enqueuedWith, nextId, ncalls,
                 outboud_queue, sigPc, inboundPut, shutdown, loopBlocked>>

\* ------------------------------------------------------------- broadcast
\* _broadcast_message: msg = yield from self._broadcast_queue.get()
BroadcastGet ==
  /\ LoopFree(Server)
  /\ broadcast_queue # <<>>
  /\ drain' = [busy |-> TRUE, message |-> Head(broadcast_queue), idx |-> 1]
  /\ broadcast_queue' = Tail(broadcast_queue)
  /\ UNCHANGED <<runPc, made, waiting, ready, send_queue, wire, received,
                 recvTask, futures, handlers, handled, recv_queue,
                 peered_with_us, inbound_queue, connections, born, call,
                 posted, regPair, nextId, ncalls,
                 slept, enqueuedWith,
                 outboud_queue, sigPc, inboundPut, shutdown,
                 loopBlocked, getters, got>>

\* A drainer that walks every link whose Stream exists, appended to the
\* list or not (links are created in increasing order).
DrainEveryStream == [i \in 1..Cardinality(born) |-> i]

\* The connections the for loop of _broadcast_message visits: the list as it
\* is when the iterator is advanced.
DrainTargets == connections

\* for connection in self._connections: yield from
\* connection.send_message(msg), that is Stream.send_message: the Future is
\* put under the message's correlation id and the message is posted to the
\* link's loop (the link's event loop exists: its register was posted).
BroadcastSendNext ==
  /\ drain.busy
  /\ drain.idx <= Len(DrainTargets)
  /\ LET l == DrainTargets[drain.idx] IN
       /\ futures' = [futures EXCEPT ![l] =
                        FuturesPut(@, drain.message.correlation_id)]
       /\ ready' = [ready EXCEPT ![l] =
                      PostToLoop(@, Posted("_put_message", drain.message))]
       /\ posted' = [posted EXCEPT ![l] = Append(@, drain.message)]
  /\ drain' = [drain EXCEPT !.idx = @ + 1]
  /\ UNCHANGED <<runPc, made, waiting, send_queue, wire, received, recvTask,
                 handlers, handled, recv_queue, peered_with_us,
                 inbound_queue, broadcast_queue, connections, born, call,
                 regPair, nextId, ncalls,
                 slept, enqueuedWith,
                 outboud_queue, sigPc, inboundPut, shutdown,
                 loopBlocked, getters, got>>

\* The for loop ends when the iterator finds no further connection.
BroadcastDone ==
  /\ drain.busy
  /\ drain.idx > Len(DrainTargets)
  /\ drain' = IdleDrain
  /\ UNCHANGED <<runPc, made, waiting, ready, send_queue, wire, received,
                 recvTask, futures, handlers, handled, recv_queue,
                 peered_with_us, inbound_queue, broadcast_queue, connections,
                 born, call, posted, regPair, nextId, ncalls,
                 slept, enqueuedWith,
                 outboud_queue, sigPc, inboundPut, shutdown,
                 loopBlocked, getters, got>>

\* Network.add_handler / Stream.add_handler called by the application once
\* the service, or the link's Stream, exists.
AddHandler(w, message_type, handler) ==
  /\ w \in Links => w \in born
  /\ message_type \notin DOMAIN handlers[w]
  /\ handlers' = [handlers EXCEPT ![w] = add_handler(@, message_type, handler)]
  /\ UNCHANGED <<runPc, made, waiting, ready, send_queue, wire, received,
                 recvTask, futures, handled, recv_queue, peered_with_us,
                 inbound_queue, broadcast_queue, connections, drain, born,
                 call, posted, regPair, slept, enqueuedWith, nextId, ncalls,
                 outboud_queue, sigPc, inboundPut, shutdown,
                 loopBlocked, getters, got>>

\* ------------------------------------------------------------- pipeline
\* Network._put_on_inbound(item) called by an application thread, as
\* Network.__init__ does: self.inbound_queue.put_nowait(item).
PutOnInbound(t, item) ==
  /\ call[t].pc = "idle"
  /\ inbound_queue' = put_on_inbound(inbound_queue, item)
  /\ inboundPut' = Append(inboundPut, item)
  /\ call' = [call EXCEPT ![t] =
                [pc |-> "notify_inbound", op |-> "_put_on_inbound",
                 w |-> Server, message |-> NoMessage]]
  /\ ncalls' = ncalls + 1
  /\ UNCHANGED <<runPc, made, waiting, ready, send_queue, wire, received,
                 recvTask, futures, handlers, handled, recv_queue,
                 peered_with_us, broadcast_queue, connections, drain, born,
                 posted, regPair, slept, enqueuedWith, nextId, outboud_queue,
                 sigPc, shutdown,
                 loopBlocked, getters, got>>

\* Network._put_on_inbound: with self._signature_condition:
\* self._signature_condition.notify_all(), and the return.
NotifyInbound(t) ==
  /\ call[t].pc = "notify_inbound"
  /\ sigPc' = SignatureNotifyAll(sigPc)
  /\ call' = [call EXCEPT ![t] = IdleCall]
  /\ UNCHANGED <<runPc, made, waiting, ready, send_queue, wire, received,
                 recvTask, futures, handlers, handled, recv_queue,
                 peered_with_us, inbound_queue, broadcast_queue, connections,
                 drain, born, posted, regPair, slept, enqueuedWith, nextId,
                 ncalls, outboud_queue, inboundPut, shutdown,
                 loopBlocked, getters, got>>

\* The verification stage: whether an item passes signature verification.
Verify(item) == item # Forged

\* The verifier's worker, holding the signature condition, finds the inbound
\* queue empty and waits on the condition.
VerifierWait ==
  /\ sigPc = "check"
  /\ inbound_queue = <<>>
  /\ sigPc' = "asleep"
  /\ UNCHANGED <<runPc, made, waiting, ready, send_queue, wire, received,
                 recvTask, futures, handlers, handled, recv_queue,
                 peered_with_us, inbound_queue, broadcast_queue, connections,
                 drain, born, call, posted, regPair, slept, enqueuedWith,
                 nextId, ncalls, outboud_queue, inboundPut, shutdown,
                 loopBlocked, getters, got>>

\* The verifier's worker takes the head of the inbound queue and puts it on
\* the outbound queue if it verifies; otherwise the item is dropped.
VerifierTake ==
  /\ sigPc = "check"
  /\ inbound_queue # <<>>
  /\ inbound_queue' = Tail(inbound_queue)
  /\ outboud_queue' = IF Verify(Head(inbound_queue))
                      THEN Append(outboud_queue, Head(inbound_queue))
                      ELSE outboud_queue
  /\ UNCHANGED <<runPc, made, waiting, ready, send_queue, wire, received,
                 recvTask, futures, handlers, handled, recv_queue,
                 peered_with_us, broadcast_queue, connections, drain, born,
                 call, posted, regPair, slept, enqueuedWith, nextId, ncalls,
                 sigPc, inboundPut, shutdown,
                 loopBlocked, getters, got>>

\* ------------------------------------------------------------- shutdown
\* run(): self._proc_sock.bind(self._url) (connect on a link) raises; the
\* exception ends run() and with it the worker thread.  The event loop and
\* the socket object were assigned before.
RunSocketFails(w) ==
  /\ runPc[w] = "proc_sock"
  /\ runPc' = [runPc EXCEPT ![w] = "exited"]
  /\ made' = [made EXCEPT ![w] = @ \cup {"proc_sock"}]
  /\ UNCHANGED <<waiting, ready, send_queue, wire, received, recvTask,
                 futures, handlers, handled, recv_queue, peered_with_us,
                 inbound_queue, broadcast_queue, connections, drain, born,
                 call, posted, regPair, slept, enqueuedWith, nextId, ncalls,
                 outboud_queue, sigPc, inboundPut, shutdown,
                 loopBlocked, getters, got>>

\* Thread.join(): returns once the thread's run() has ended.
Joined(w) == runPc[w] = "exited"

\* Network.stop() up to self._send_receive_thread.join(): the verifier and
\* the dispatcher are stopped and their conditions notified.
NetworkStop ==
  /\ shutdown.stop = "idle"
  /\ shutdown' = [shutdown EXCEPT !.stop = "join"]
  /\ sigPc' = "stopped"
  /\ UNCHANGED <<runPc, made, waiting, ready, send_queue, wire, received,
                 recvTask, futures, handlers, handled, recv_queue,
                 peered_with_us, inbound_queue, broadcast_queue, connections,
                 drain, born, call, posted, regPair, slept, enqueuedWith,
                 nextId, ncalls, outboud_queue, inboundPut,
                 loopBlocked, getters, got>>

\* Network.stop(): self._send_receive_thread.join() returns, and so does
\* stop().
NetworkStopJoin ==
  /\ shutdown.stop = "join"
  /\ Joined(Server)
  /\ shutdown' = [shutdown EXCEPT !.stop = "returned"]
  /\ UNCHANGED <<runPc, made, waiting, ready, send_queue, wire, received,
                 recvTask, futures, handlers, handled, recv_queue,
                 peered_with_us, inbound_queue, broadcast_queue, connections,
                 drain, born, call, posted, regPair, slept, enqueuedWith,
                 nextId, ncalls, outboud_queue, sigPc, inboundPut,
                 loopBlocked, getters, got>>

\* close_connections() is called: the for loop starts at the head of
\* self._connections.
CloseConnections ==
  /\ shutdown.close = "idle"
  /\ shutdown' = [shutdown EXCEPT !.close = "send", !.idx = 1]
  /\ UNCHANGED <<runPc, made, waiting, ready, send_queue, wire, received,
                 recvTask, futures, handlers, handled, recv_queue,
                 peered_with_us, inbound_queue, broadcast_queue, connections,
                 drain, born, call, posted, regPair, slept, enqueuedWith,
                 nextId, ncalls, outboud_queue, sigPc, inboundPut,
                 loopBlocked, getters, got>>

\* Connection.stop(): self._stream.send('gossip/unregister', ...).  The
\* link's event loop exists (the connection is in the list, so its register
\* was posted): the Future is put and the envelope posted.
ConnectionStopSend ==
  /\ shutdown.close = "send"
  /\ shutdown.idx <= Len(connections)
  /\ IdsLeft
  /\ LET l == connections[shutdown.idx]
         message == Message("gossip/unregister", GenerateId, EmptyPayload,
                            NoSender)
     IN /\ futures' = [futures EXCEPT ![l] =
                         FuturesPut(@, message.correlation_id)]
        /\ ready' = [ready EXCEPT ![l] =
                       PostToLoop(@, Posted("_put_message", message))]
        /\ posted' = [posted EXCEPT ![l] = Append(@, message)]
  /\ nextId' = nextId + 1
  /\ shutdown' = [shutdown EXCEPT !.close = "join"]
  /\ UNCHANGED <<runPc, made, waiting, send_queue, wire, received, recvTask,
                 handlers, handled, recv_queue, peered_with_us,
                 inbound_queue, broadcast_queue, connections, drain, born,
                 call, regPair, slept, enqueuedWith, ncalls, outboud_queue,
                 sigPc, inboundPut,
                 loopBlocked, getters, got>>

\* Connection.stop(): self._stream.close(), that is
\* self._send_receive_thread.join(), returns; the for loop goes on to the
\* next connection.
StreamClose ==
  /\ shutdown.close = "join"
  /\ Joined(connections[shutdown.idx])
  /\ shutdown' = [shutdown EXCEPT !.close = "send", !.idx = @ + 1]
  /\ UNCHANGED <<runPc, made, waiting, ready, send_queue, wire, received,
                 recvTask, futures, handlers, handled, recv_queue,
                 peered_with_us, inbound_queue, broadcast_queue, connections,
                 drain, born, call, posted, regPair, slept, enqueuedWith,
                 nextId, ncalls, outboud_queue, sigPc, inboundPut,
                 loopBlocked, getters, got>>

\* close_connections(): the for loop finds no further connection.
CloseConnectionsReturn ==
  /\ shutdown.close = "send"
  /\ shutdown.idx > Len(connections)
  /\ shutdown' = [shutdown EXCEPT !.close = "done"]
  /\ UNCHANGED <<runPc, made, waiting, ready, send_queue, wire, received,
                 recvTask, futures, handlers, handled, recv_queue,
                 peered_with_us, inbound_queue, broadcast_queue, connections,
                 drain, born, call, posted, regPair, slept, enqueuedWith,
                 nextId, ncalls, outboud_queue, sigPc, inboundPut,
                 loopBlocked, getters, got>>

\* ------------------------------------------------------------- Next
\* The application starts at most max calls.
CallBudget(max) == ncalls < max

\* The receive loops of the server endpoint and of one outbound connection,
\* with requests in flight on both.
DispatchFrames == {e \in Envelopes : e.content = "a" /\ e.sender = "p1"}

Next ==
  \/ Run(Server)
  \/ Run(1)
  \/ LoopRunPosted(Server)
  \/ LoopRunPosted(1)
  \/ SendLoop(Server)
  \/ SendLoop(1)
  \/ ServerReceive(DispatchFrames, MaxRecv)
  \/ ClientReceive(1, DispatchFrames, MaxRecv)
  \/ CallBudget(MaxCalls) /\ StreamSend(1, 1, "gossip/ping", "a")
  \/ CallBudget(MaxCalls) /\ NetworkBroadcast(1, "a")
  \/ CallBudget(MaxCalls) /\ AddConnection(1, 1)
  \/ WaitFor(1)
  \/ PostCall(1)
  \/ BroadcastPutFuture(1)
  \/ AppendConnection(1)
  \/ BroadcastGet
  \/ BroadcastSendNext
  \/ BroadcastDone

Spec == Init /\ [][Next]_vars

\* The server endpoint receiving gossip/register and gossip/unregister from
\* its peers.
RegistryFrames ==
  {e \in Envelopes :
     e.message_type \in {"gossip/register", "gossip/unregister"}}

RegistryNext ==
  \/ Run(Server)
  \/ ServerReceive(RegistryFrames, MaxRegFrames)
  \/ LoopRunPosted(Server)
  \/ SendLoop(Server)

RegistrySpec == Init /\ [][RegistryNext]_vars

\* The start of the workers against the calls of the application threads,
\* and the send paths: the server endpoint and one outbound connection, two
\* application threads, and the acks of the remote peer.
AckFrames == {Message("gossip/ack", c, AckOK, "p1") : c \in Cids}

\* The message of the next direct send_message call: no two are equal.
NextDirect == Message("gossip/ack", CidSeq[ncalls + 1], AckOK, "p1")

SendNext ==
  \/ Run(Server)
  \/ Run(1)
  \/ \E t \in Threads : CallBudget(MaxCalls) /\ AddConnection(t, 1)
  \/ \E t \in Threads :
       CallBudget(MaxCalls) /\ StreamSend(t, 1, "gossip/ping", "a")
  \/ \E t \in Threads :
       /\ CallBudget(MaxCalls)
       /\ ncalls < Len(CidSeq)
       /\ ServerSendMessage(t, NextDirect)
  \/ \E t \in Threads : CallBudget(MaxCalls) /\ NetworkBroadcast(t, "a")
  \/ \E t \in Threads : WaitForTracked(t)
  \/ \E t \in Threads : PostCall(t)
  \/ \E t \in Threads : BroadcastPutFuture(t)
  \/ \E t \in Threads : AppendConnection(t)
  \/ LoopRunPostedTracked(Server)
  \/ LoopRunPostedTracked(1)
  \/ SendLoop(Server)
  \/ SendLoop(1)
  \/ BroadcastGet
  \/ BroadcastSendNext
  \/ BroadcastDone
  \/ ClientReceive(1, AckFrames, MaxAcks)

\* Every started thread runs, and every loop runs what is ready; the remote
\* peer owes nothing.
SendFairness ==
  /\ WF_vars(Run(Server))
  /\ WF_vars(Run(1))
  /\ \A t \in Threads :
       /\ WF_vars(WaitForTracked(t))
       /\ WF_vars(PostCall(t))
       /\ WF_vars(BroadcastPutFuture(t))
       /\ WF_vars(AppendConnection(t))
  /\ WF_vars(LoopRunPostedTracked(Server))
  /\ WF_vars(LoopRunPostedTracked(1))
  /\ WF_vars(SendLoop(Server))
  /\ WF_vars(SendLoop(1))
  /\ WF_vars(BroadcastGet)
  /\ WF_vars(BroadcastSendNext)
  /\ WF_vars(BroadcastDone)

SendSpec == Init /\ [][SendNext]_vars /\ SendFairness

\* The broadcast fan-out: one application thread adds connections while the
\* other broadcasts.
FanoutNext ==
  \/ \E w \in Workers : Run(w)
  \/ \E l \in Links : CallBudget(MaxFanoutCalls) /\ AddConnection(1, l)
  \/ CallBudget(MaxFanoutCalls) /\ NetworkBroadcast(2, "a")
  \/ \E t \in Threads : WaitFor(t)
  \/ \E t \in Threads : PostCall(t)
  \/ BroadcastPutFuture(2)
  \/ AppendConnection(1)
  \/ LoopRunPostedTracked(Server)
  \/ \E l \in Links : LoopRunPosted(l)
  \/ \E l \in Links : SendLoop(l)
  \/ BroadcastGet
  \/ BroadcastSendNext
  \/ BroadcastDone

FanoutSpec == Init /\ [][FanoutNext]_vars

\* The order on a link: one application thread adds connections while the
\* other broadcasts and the remote peers send pings to the links.
OrderFrames == {Message("gossip/ping", "c4", "a", "p1")}

OrderNext ==
  \/ \E w \in Workers : Run(w)
  \/ \E l \in Links : CallBudget(MaxFanoutCalls) /\ AddConnection(1, l)
  \/ CallBudget(MaxFanoutCalls) /\ NetworkBroadcast(2, "a")
  \/ \E t \in Threads : WaitFor(t)
  \/ \E t \in Threads : PostCall(t)
  \/ BroadcastPutFuture(2)
  \/ AppendConnection(1)
  \/ LoopRunPosted(Server)
  \/ \E l \in Links : LoopRunPosted(l)
  \/ \E l \in Links : SendLoop(l)
  \/ \E l \in Links : ClientReceive(l, OrderFrames, MaxOrderFrames)
  \/ BroadcastGet
  \/ BroadcastSendNext
  \/ BroadcastDone

OrderSpec == Init /\ [][OrderNext]_vars

\* The receive queue of a link: the remote peer answers the register and
\* sends requests of every type, while an application thread calls
\* Stream.receive().
QueueFrames ==
  {Message("gossip/ack", "c1", AckOK, "p1")} \cup
  {Message(t, "c4", "a", "p1") :
     t \in {"gossip/register", "gossip/ping", "gossip/msg"}}

QueueNext ==
  \/ Run(1)
  \/ CallBudget(MaxLoopCalls) /\ AddConnection(1, 1)
  \/ CallBudget(MaxLoopCalls) /\ StreamReceive(2, 1)
  \/ \E t \in Threads : WaitFor(t)
  \/ PostCall(1)
  \/ GetMessagePost(2)
  \/ AppendConnection(1)
  \/ LoopRunPosted(1)
  \/ SendLoop(1)
  \/ ClientReceive(1, QueueFrames, MaxQueueFrames)
  \/ GetMessageReturn(1)

QueueSpec == Init /\ [][QueueNext]_vars

\* Decoding: the server endpoint and one outbound connection receive
\* well-formed requests, requests whose payload does not parse, and bytes
\* that are no envelope.
DecodeFrames ==
  {Message(t, "c2", p, "p1") :
     t \in {"gossip/register", "gossip/ping"}, p \in {"a", BadPayload}}

DecodeNext ==
  \/ Run(Server)
  \/ Run(1)
  \/ CallBudget(MaxCalls) /\ AddConnection(1, 1)
  \/ WaitFor(1)
  \/ PostCall(1)
  \/ AppendConnection(1)
  \/ LoopRunPosted(Server)
  \/ LoopRunPosted(1)
  \/ SendLoop(Server)
  \/ SendLoop(1)
  \/ ServerReceive(DecodeFrames, MaxDecodeFrames)
  \/ ClientReceive(1, DecodeFrames, MaxDecodeFrames)
  \/ ReceiveGarbage(Server, MaxDecodeFrames)
  \/ ReceiveGarbage(1, MaxDecodeFrames)

DecodeSpec == Init /\ [][DecodeNext]_vars

\* The pipeline: the server's GossipMessage handler and two application
\* threads put on the inbound queue, against the verifier's worker.
PipeItems == {"a", "b", Forged}
PipeFrames == {Message("gossip/msg", "c1", x, "p1") : x \in {"a", Forged}}

PipelineNext ==
  \/ Run(Server)
  \/ ServerReceive(PipeFrames, MaxRecv)
  \/ LoopRunPosted(Server)
  \/ SendLoop(Server)
  \/ \E t \in Threads : \E item \in PipeItems :
       CallBudget(MaxPipeCalls) /\ PutOnInbound(t, item)
  \/ \E t \in Threads : NotifyInbound(t)
  \/ VerifierWait
  \/ VerifierTake

PipelineSpec == Init /\ [][PipelineNext]_vars

\* Correlation ids: one thread adds a connection and sends on it, the other
\* broadcasts messages built with and without a correlation id.
CorrelationNext ==
  \/ Run(Server)
  \/ Run(1)
  \/ CallBudget(MaxFanoutCalls) /\ AddConnection(1, 1)
  \/ CallBudget(MaxFanoutCalls) /\ StreamSend(1, 1, "gossip/ping", "a")
  \/ CallBudget(MaxFanoutCalls) /\ NetworkBroadcast(2, "a")
  \/ CallBudget(MaxFanoutCalls) /\ NetworkBroadcastNoCid(2, "a")
  \/ \E t \in Threads : WaitFor(t)
  \/ \E t \in Threads : PostCall(t)
  \/ BroadcastPutFuture(2)
  \/ AppendConnection(1)
  \/ LoopRunPosted(Server)
  \/ LoopRunPosted(1)
  \/ SendLoop(1)
  \/ BroadcastGet
  \/ BroadcastSendNext
  \/ BroadcastDone

CorrelationSpec == Init /\ [][CorrelationNext]_vars

\* Handler tables: the server endpoint and one outbound connection receive
\* requests of types that have no handler at first, while the application
\* registers handlers for them.
HandlerFrames ==
  {Message(t, "c2", "a", "p1") : t \in {"gossip/ping", "gossip/register"}}

HandlerNext ==
  \/ Run(Server)
  \/ Run(1)
  \/ CallBudget(MaxCalls) /\ AddConnection(1, 1)
  \/ WaitFor(1)
  \/ PostCall(1)
  \/ AppendConnection(1)
  \/ LoopRunPosted(Server)
  \/ LoopRunPosted(1)
  \/ SendLoop(Server)
  \/ SendLoop(1)
  \/ AddHandler(Server, "gossip/ping", HPing)
  \/ AddHandler(1, "gossip/register", HPing)
  \/ ServerReceive(HandlerFrames, MaxRecv)
  \/ ClientReceive(1, HandlerFrames, MaxRecv)

HandlerSpec == Init /\ [][HandlerNext]_vars

\* The event loops: every coroutine of the server worker and of a link
\* worker runs, posted by application threads that start before or after
\* the loops do.
LoopFrames == {Message("gossip/register", "c3", "a", "p1")}

LoopNext ==
  \/ Run(Server)
  \/ Run(1)
  \/ CallBudget(MaxLoopCalls) /\ AddConnection(1, 1)
  \/ CallBudget(MaxLoopCalls) /\ NetworkBroadcast(1, "a")
  \/ CallBudget(MaxLoopCalls) /\ StreamReceive(2, 1)
  \/ \E t \in Threads : WaitFor(t)
  \/ PostCall(1)
  \/ GetMessagePost(2)
  \/ BroadcastPutFuture(1)
  \/ AppendConnection(1)
  \/ LoopRunPosted(Server)
  \/ LoopRunPosted(1)
  \/ SendLoop(Server)
  \/ SendLoop(1)
  \/ ServerReceive(LoopFrames, MaxRecv)
  \/ ClientReceive(1, LoopFrames, MaxRecv)
  \/ GetMessageReturn(1)
  \/ BroadcastGet
  \/ BroadcastSendNext
  \/ BroadcastDone

LoopSpec == Init /\ [][LoopNext]_vars

\* Shutdown: one application thread adds the connections, another calls
\* Network.stop(), a third close_connections(); bind and connect may fail.
StopNext ==
  \/ \E w \in Workers : Run(w)
  \/ \E w \in Workers : RunSocketFails(w)
  \/ \E l \in Links : CallBudget(MaxStopCalls) /\ AddConnection(1, l)
  \/ WaitFor(1)
  \/ PostCall(1)
  \/ AppendConnection(1)
  \/ \E w \in Workers : LoopRunPosted(w)
  \/ \E w \in Workers : SendLoop(w)
  \/ NetworkStop
  \/ NetworkStopJoin
  \/ CloseConnections
  \/ ConnectionStopSend
  \/ StreamClose
  \/ CloseConnectionsReturn

\* Every started thread runs and every loop runs what is ready; nothing
\* makes the application call, or a socket fail.
StopFairness ==
  /\ \A w \in Workers : WF_vars(Run(w))
  /\ WF_vars(WaitFor(1))
  /\ WF_vars(PostCall(1))
  /\ WF_vars(AppendConnection(1))
  /\ \A w \in Workers : WF_vars(LoopRunPosted(w)) /\ WF_vars(SendLoop(w))
  /\ WF_vars(NetworkStopJoin)
  /\ WF_vars(ConnectionStopSend)
  /\ WF_vars(StreamClose)
  /\ WF_vars(CloseConnectionsReturn)

StopSpec == Init /\ [][StopNext]_vars /\ StopFairness

\* ------------------------------------------------------------- properties
\* The handler _receive_message of worker w looks up for a message.
ExpectedHandler(w, m) ==
  IF m.message_type \in DOMAIN handlers[w] THEN handlers[w][m.message_type]
  ELSE handlers[w]["default"]

\* C1: on the server loop and on a client loop, a received envelope whose
\* correlation id is in that loop's futures table sets that Future's result
\* and invokes no handler; one whose id is not in the table invokes exactly
\* one handler, the one registered for its type or else the default one,
\* and changes no Future.
C1_ReplyOrInitial ==
  [][\A w \in Workers :
       received'[w] # received[w] =>
         LET m == Last(received'[w]) IN
           IF m.correlation_id \in DOMAIN futures[w]
           THEN /\ futures'[w][m.correlation_id] =
                     [done |-> TRUE,
                      result |-> FutureResult(m.message_type, m.content)]
                /\ \A c \in DOMAIN futures[w] \ {m.correlation_id} :
                     futures'[w][c] = futures[w][c]
                /\ handled' = handled
           ELSE /\ Len(handled') = Len(handled) + 1
                /\ SubSeq(handled', 1, Len(handled)) = handled
                /\ Last(handled').worker = w
                /\ Last(handled').message = m
                /\ Last(handled').handler = ExpectedHandler(w, m)
                /\ futures' = futures]_vars

\* C1's case: the server loop has dispatched an initial message to a handler
\* and a client loop has resolved a Future with a reply.
C1_Witness ==
  /\ \E i \in DOMAIN handled : handled[i].worker = Server
  /\ \E l \in Links : \E c \in DOMAIN futures[l] : futures[l][c].done

\* C3: on a client link every resolved Future holds the result of a
\* received reply that carries the Future's own correlation id, and every
\* received envelope was either dispatched to a handler or resolved the
\* Future of its own correlation id, whatever the order of arrival.
C3_RepliesMatchById ==
  \A l \in Links :
    /\ \A c \in DOMAIN futures[l] :
         futures[l][c].done =>
           \E i \in DOMAIN received[l] :
             /\ received[l][i].correlation_id = c
             /\ futures[l][c].result =
                  FutureResult(received[l][i].message_type,
                               received[l][i].content)
    /\ \A i \in DOMAIN received[l] :
         \/ \E j \in DOMAIN handled :
              handled[j].worker = l /\ handled[j].message = received[l][i]
         \/ /\ received[l][i].correlation_id \in DOMAIN futures[l]
            /\ futures[l][received[l][i].correlation_id].done

\* C3's case: two requests were posted on a link, their replies arrived in
\* the reverse order, and both Futures are resolved.
C3_Witness ==
  \E l \in Links :
    /\ Len(posted[l]) = 2 /\ Len(received[l]) = 2
    /\ received[l][1].correlation_id = posted[l][2].correlation_id
    /\ received[l][2].correlation_id = posted[l][1].correlation_id
    /\ posted[l][1].correlation_id # posted[l][2].correlation_id
    /\ \A c \in DOMAIN futures[l] : futures[l][c].done

\* C9: whenever a built-in handler (PeerRegister, PeerUnregister,
\* GossipMessage, Ping) handles a request it sends through the responder
\* exactly one gossip/ack with the request's correlation id, the request's
\* sender and status OK.
C9_HandlerAcksOnce ==
  \A i \in DOMAIN handled :
    handled[i].handler \in {HRegister, HUnregister, HGossip, HPing} =>
      handled[i].acks =
        <<Message("gossip/ack", handled[i].message.correlation_id, AckOK,
                  handled[i].message.sender)>>

\* C10: a gossip/ping received as an initial message by the server endpoint
\* is dispatched to the Ping handler, which sends one gossip/ack echoing the
\* correlation id; it is not routed to the default handler.
C10_ServerPingAcked ==
  \A i \in DOMAIN handled :
    (handled[i].worker = Server /\
     handled[i].message.message_type = "gossip/ping") =>
      /\ handled[i].handler = HPing
      /\ handled[i].acks =
           <<Message("gossip/ack", handled[i].message.correlation_id, AckOK,
                     handled[i].message.sender)>>

\* The last two registry operations are register_peer(p, i) immediately
\* followed by unregister_peer(p, i).
MatchedPair ==
  /\ Len(regPair) = 2
  /\ regPair[1].op = HRegister
  /\ regPair[2].op = HUnregister
  /\ regPair[1].sender = regPair[2].sender
  /\ regPair[1].identity = regPair[2].identity

\* C7 as stated: after register_peer(p, i) followed by unregister_peer(p, i)
\* the registry equals the registry before the pair, also when p was
\* registered before the pair.
C7_PairRestoresRegistry ==
  MatchedPair => peered_with_us = regPair[1].before

\* C7 amended: after register_peer(p, i) followed by unregister_peer(p, i),
\* with p not registered before the pair, the registry equals the registry
\* before the pair.
C7_PairRestoresWhenAbsent ==
  (MatchedPair /\ regPair[1].sender \notin DOMAIN regPair[1].before) =>
    peered_with_us = regPair[1].before

\* C7's case: a matched pair for a sender that was not registered, applied
\* to a registry that holds another sender.
C7_Witness ==
  /\ MatchedPair
  /\ regPair[1].sender \notin DOMAIN regPair[1].before
  /\ DOMAIN regPair[1].before # {}

\* C8: after any sequence of register messages the registry holds at most
\* one record for a sender, and every register request is acked with its own
\* correlation id.
C8_RegistryDeduplicates ==
  /\ \A p \in DOMAIN peered_with_us : Len(peered_with_us[p]) <= 1
  /\ \A i \in DOMAIN handled :
       handled[i].handler = HRegister =>
         /\ Len(handled[i].acks) = 1
         /\ handled[i].acks[1].correlation_id =
              handled[i].message.correlation_id

\* The messages of the _put_message coroutines waiting on a loop, in order.
RECURSIVE PutMessages(_)
PutMessages(r) ==
  IF r = <<>> THEN <<>>
  ELSE IF Head(r).co = "_put_message"
       THEN <<Head(r).message>> \o PutMessages(Tail(r))
       ELSE PutMessages(Tail(r))

RECURSIVE BroadcastMessages(_)
BroadcastMessages(r) ==
  IF r = <<>> THEN <<>>
  ELSE IF Head(r).co = "_put_broadcast_message"
       THEN <<Head(r).message>> \o BroadcastMessages(Tail(r))
       ELSE BroadcastMessages(Tail(r))

Occurrences(m, q) == Cardinality({i \in DOMAIN q : q[i] = m})

\* C2: every Future a send returned eventually leaves the pending state.
C2_EveryFutureResolves ==
  \A w \in Workers : \A i \in DOMAIN CidSeq :
    (CidSeq[i] \in DOMAIN futures[w] /\ ~futures[w][CidSeq[i]].done)
      ~> (CidSeq[i] \in DOMAIN futures[w] /\ futures[w][CidSeq[i]].done)

\* C4: on every link the envelopes handed to send_message are, in the order
\* of the calls, the envelopes written to the socket followed by those still
\* in the send queue and those still posted to the loop: none is reordered,
\* dropped or duplicated.
C4_SendOrderKept ==
  \A w \in Workers :
    posted[w] = wire[w] \o send_queue[w] \o PutMessages(ready[w])

\* C4's case: two different envelopes were written to one socket.
C4_Witness ==
  \E w \in Workers : Len(wire[w]) >= 2 /\ wire[w][1] # wire[w][2]

\* The envelope of a call has reached the queue of the worker it was sent to.
Enqueued(m) ==
  \/ \E w \in Workers :
       Occurrences(m, send_queue[w]) + Occurrences(m, wire[w]) >= 1
  \/ \E r \in enqueuedWith : r.correlation_id = m.correlation_id

\* C6: a send_message or broadcast_message call that found the worker's
\* event loop not yet constructed sleeps, is eventually released, and its
\* envelope is enqueued on the worker's queue, and never twice.
C6_EarlyCallsEnqueueOnce ==
  /\ [](\A m \in slept :
          /\ \A w \in Workers :
               Occurrences(m, PutMessages(ready[w]))
                 + Occurrences(m, send_queue[w])
                 + Occurrences(m, wire[w]) <= 1
          /\ Occurrences(m, BroadcastMessages(ready[Server]))
               + Occurrences(m, broadcast_queue) <= 1)
  /\ <>[](\A m \in slept : Enqueued(m))
  /\ <>[](\A w \in Workers : waiting[w] = {})

\* C6's case: a caller slept on the readiness condition and its envelope is
\* on the worker's queue or beyond.
C6_Witness == \E m \in slept : Enqueued(m)

Range(q) == {q[i] : i \in DOMAIN q}

\* How many envelopes with correlation id c were handed to link l.
SentOn(l, c) ==
  Cardinality({i \in DOMAIN posted[l] : posted[l][i].correlation_id = c})

\* The drainer is done with the broadcast of correlation id c.
Drained(c) ==
  /\ \A i \in DOMAIN broadcast_queue : broadcast_queue[i].correlation_id # c
  /\ ~(drain.busy /\ drain.message.correlation_id = c)

\* C5: a broadcast envelope is sent exactly once to each connection that was
\* in the connection list when the envelope was enqueued, and never to a
\* connection added after that.
C5_FanoutToEnqueueTimePeers ==
  \A r \in enqueuedWith : \A l \in Links :
    IF l \in Range(r.connections)
    THEN /\ SentOn(l, r.correlation_id) <= 1
         /\ Drained(r.correlation_id) => SentOn(l, r.correlation_id) = 1
    ELSE SentOn(l, r.correlation_id) = 0

\* The Futures still pending in some table.
InFlight ==
  {<<w, c>> \in Workers \X Range(CidSeq) :
     c \in DOMAIN futures[w] /\ ~futures[w][c].done}

\* C11: once Network.stop() has been called with Futures in flight, it
\* eventually returns with no Future left pending and with the server worker
\* and every link worker out of their event loops.
C11_StopTerminates ==
  (shutdown.stop = "join" /\ InFlight # {})
    ~> (/\ shutdown.stop = "returned"
        /\ InFlight = {}
        /\ \A w \in Workers : runPc[w] \in {"unborn", "exited"})

\* Connection.stop has handed the gossip/unregister of link l to the link.
UnregisterSent(l) ==
  \E i \in DOMAIN posted[l] : posted[l][i].message_type = "gossip/unregister"

\* C12: once the connections are being closed, every connection in the list
\* eventually has sent its gossip/unregister and been closed, one connection
\* after the other, and close_connections returns.
C12_UnregisterThenClose ==
  (shutdown.close = "send" /\ shutdown.idx = 1 /\ connections # <<>>)
    ~> (/\ shutdown.close = "done"
        /\ \A i \in DOMAIN connections : UnregisterSent(connections[i]))

\* The receive loop of worker w has read bytes that are no envelope, or an
\* envelope whose payload its handler could not parse.
DecodeFailed(w) ==
  \/ \E i \in DOMAIN received[w] : received[w][i] = Garbage
  \/ \E j \in DOMAIN handled :
       /\ handled[j].worker = w
       /\ handled[j].handler # HDefault
       /\ ~PayloadParses(handled[j].message.content)

\* C13: after a decoding failure on an endpoint, of the envelope or of its
\* payload, the receive loop of that endpoint is still running, so that the
\* envelopes that follow are processed.
C13_DecodeFailureKeepsLoop ==
  \A w \in Workers : DecodeFailed(w) => recvTask[w] = "running"

\* The items the verifier has taken from the inbound queue, in order.
Taken == SubSeq(inboundPut, 1, Len(inboundPut) - Len(inbound_queue))

\* C14: the outbound queue holds exactly the items put on the inbound queue
\* and taken by the verifier that pass verification, each once, in the order
\* in which they were put.
C14_PipelineFifo == outboud_queue = SelectSeq(Taken, Verify)

\* C14's case: an item that fails verification was put between two
\* different items that pass, and both of those reached the outbound queue.
C14_Witness ==
  /\ Len(inboundPut) >= 3
  /\ Verify(inboundPut[1]) /\ ~Verify(inboundPut[2]) /\ Verify(inboundPut[3])
  /\ inboundPut[1] # inboundPut[3]
  /\ outboud_queue = <<inboundPut[1], inboundPut[3]>>

\* C19: the verifier's worker is asleep on the signature condition with an
\* item on the inbound queue only while the producer of an item is between
\* its put and its notify_all: no wake-up is lost.
C19_NoLostWakeup ==
  (sigPc = "asleep" /\ inbound_queue # <<>>) =>
    \E t \in Threads : call[t].pc = "notify_inbound"

\* C19's case: the worker went to sleep on an empty queue, a producer has
\* put an item and is about to notify.
C19_Witness ==
  /\ sigPc = "asleep"
  /\ inbound_queue # <<>>
  /\ \E t \in Threads : call[t].pc = "notify_inbound"

\* C15: resolving a Future consumes it: when a received envelope is matched
\* as a reply, its correlation id is in the loop's futures table no longer,
\* so that a second envelope with that id goes to a handler.
C15_ResolutionConsumes ==
  [][\A w \in Workers :
       (/\ received'[w] # received[w]
        /\ Last(received'[w]).correlation_id \in DOMAIN futures[w])
         => Last(received'[w]).correlation_id \notin DOMAIN futures'[w]]_vars

\* The position of a correlation id in the order _generate_id handed them
\* out: the broadcasts of one thread get their ids in the order of its calls.
CidIndex(c) == CHOOSE i \in DOMAIN CidSeq : CidSeq[i] = c

\* The broadcast envelopes of q are in the order of the broadcast calls.
InCallOrder(q) ==
  \A i, j \in DOMAIN q :
    (/\ i < j
     /\ q[i].message_type = "gossip/msg"
     /\ q[j].message_type = "gossip/msg")
      => CidIndex(q[i].correlation_id) < CidIndex(q[j].correlation_id)

\* C16: broadcasts made one after the other by a thread are handed to each
\* connection, and enqueued and written on its link, in the order of the
\* calls.
C16_BroadcastOrderPerLink ==
  \A l \in Links :
    /\ InCallOrder(posted[l])
    /\ InCallOrder(wire[l] \o send_queue[l])

\* C16's case: two broadcasts have been enqueued on the link of one
\* connection.
C16_Witness ==
  \E l \in Links :
    Cardinality({i \in DOMAIN (wire[l] \o send_queue[l]) :
                   (wire[l] \o send_queue[l])[i].message_type = "gossip/msg"})
      >= 2

\* C17: every gossip/msg dispatched to the GossipMessage handler, on the
\* server endpoint or on a link, has its payload put on the inbound queue
\* once and its gossip/ack sent after that, and the handler returns without
\* raising.
C17_GossipPutsThenAcks ==
  /\ \A i \in DOMAIN handled :
       handled[i].handler = HGossip =>
         /\ handled[i].ok
         /\ handled[i].steps = <<"_put_on_inbound", "send">>
  /\ Len(inboundPut) =
       Cardinality({i \in DOMAIN handled : handled[i].handler = HGossip})

\* C18: every envelope handed to a connection's link, by Stream.send or by
\* Stream.send_message, carries a correlation id, and the link's futures
\* table holds a Future under that id from before the envelope is enqueued.
C18_EveryEnvelopeCorrelated ==
  \A l \in Links : \A i \in DOMAIN posted[l] :
    /\ posted[l][i].correlation_id # NoCid
    /\ posted[l][i].correlation_id \in DOMAIN futures[l]

\* C20: the handler table of every started worker holds a default entry,
\* and every envelope that is no reply is dispatched to the handler the
\* table holds for its type when it is received, or else to the default
\* handler: lookup never fails, and a handler added later is used from then
\* on.
C20_LookupTotal ==
  /\ [](\A w \in Workers :
          runPc[w] # "unborn" => "default" \in DOMAIN handlers[w])
  /\ [][\A w \in Workers :
           (/\ received'[w] # received[w]
            /\ Last(received'[w]).correlation_id \notin DOMAIN futures[w])
             => /\ Last(handled').worker = w
                /\ Last(handled').handler =
                     IF Last(received'[w]).message_type \in DOMAIN handlers[w]
                     THEN handlers[w][Last(received'[w]).message_type]
                     ELSE HDefault]_vars

\* C20's case: the server endpoint dispatched a gossip/ping to the default
\* handler, a Ping handler was added, and the next gossip/ping went to it.
C20_Witness ==
  \E i, j \in DOMAIN handled :
    /\ i < j
    /\ handled[i].worker = Server /\ handled[j].worker = Server
    /\ handled[i].message.message_type = "gossip/ping"
    /\ handled[j].message.message_type = "gossip/ping"
    /\ handled[i].handler = HDefault
    /\ handled[j].handler = HPing

\* C21: no loop thread ever sleeps in a wait_for of its own worker: each
\* time a coroutine of a worker evaluates its predicate on the loop thread,
\* the socket and the queues it names are already constructed.
C21_LoopNeverBlocks ==
  /\ loopBlocked = {}
  /\ \A w \in Workers :
       Running(w) =>
         /\ \A fields \in TaskPredicates(w) : WaitForOnLoop(w, fields)
         /\ \A i \in DOMAIN ready[w] :
              WaitForOnLoop(w, PostedPredicate(ready[w][i].co))

\* C21's case: on the server loop _put_message and _put_broadcast_message
\* have run and the drainer has sent, and on a link loop _put_message and
\* _get_message have run, for calls some of which were made before the
\* loops existed.
C21_Witness ==
  /\ wire[Server] # <<>>
  /\ \E i \in DOMAIN wire[1] : wire[1][i].message_type = "gossip/msg"
  /\ got[1] # <<>>

\* The envelopes enqueued on link l, in the order of their enqueueing: the
\* envelopes posted to its loop, which puts them on its send queue in that
\* order.
EnqueuedOn(l) == posted[l]

\* The position of the first gossip/register enqueued on link l, 0 if none.
RegisterAt(l) ==
  LET at == {i \in DOMAIN EnqueuedOn(l) :
               EnqueuedOn(l)[i].message_type = "gossip/register"}
  IN IF at = {} THEN 0 ELSE CHOOSE i \in at : \A j \in at : i <= j

\* C22: on every outbound connection no broadcast envelope is enqueued on
\* its link ahead of the gossip/register of its constructor, in every
\* interleaving of add_connection with the broadcast drainer.
C22_RegisterBeforeBroadcast ==
  \A l \in Links :
    \A i \in DOMAIN EnqueuedOn(l) :
      EnqueuedOn(l)[i].message_type = "gossip/msg" =>
        /\ RegisterAt(l) # 0
        /\ RegisterAt(l) < i

\* C22 as stated: the gossip/register is the first envelope enqueued on
\* its link.
C22_RegisterFirst ==
  \A l \in Links :
    EnqueuedOn(l) # <<>> => EnqueuedOn(l)[1].message_type = "gossip/register"

\* C22's case: a broadcast was drained to a link while the other link's
\* constructor had not yet posted its register.
C22_Witness ==
  /\ \E i \in DOMAIN EnqueuedOn(1) : EnqueuedOn(1)[i].message_type = "gossip/msg"
  /\ 2 \in born
  /\ EnqueuedOn(2) = <<>>
  /\ drain.busy

\* The envelopes link l received that matched no Future when they arrived,
\* in arrival order: the ones _receive_message looked a handler up for.
RECURSIVE Unmatched(_, _)
Unmatched(l, i) ==
  IF i = 0 THEN <<>>
  ELSE IF handled[i].worker = l
       THEN Append(Unmatched(l, i - 1), handled[i].message)
       ELSE Unmatched(l, i - 1)

\* C23: on a client link the envelopes Stream.receive() has returned,
\* followed by the ones still on the receive queue, are exactly the received
\* envelopes that matched no Future, in arrival order and each once; an
\* envelope that resolved a Future is not among them.
C23_ReceiveSequence ==
  \A l \in Links :
    /\ got[l] \o recv_queue[l] = Unmatched(l, Len(handled))
    /\ \A i \in DOMAIN recv_queue[l] : ~IsReply(l, recv_queue[l][i])

====
